---------------------------- MODULE Spec2Model ----------------------------
(***************************************************************************)
(* Verification model of the chatbot query pipeline (chatbot/views.py) and *)
(* of the versioned FAISS index store (chatbot/azure_blob.py, with the     *)
(* maintenance jobs of chatbot/tasks.py).                                  *)
(*                                                                         *)
(* Two groups of variables, each with its own next-state relation:         *)
(*   - the request pipeline  process_query      (Spec, FairSpec)           *)
(*   - the index store and its jobs and readers (StoreSpec), and the local *)
(*     cache file under concurrent refreshes and loads (CacheSpec)         *)
(***************************************************************************)
EXTENDS Integers, Sequences, FiniteSets, TLC

(***************************************************************************)
(* Bounds of the model.                                                    *)
(***************************************************************************)
\* longest raw query text, in characters
MaxQueryLen == 2
\* cap on the requests sent to the code-generating model for one query
MaxModelRequests == 5

\* ticks of wall-clock time an artifact may run before it is stopped
ExecTimeout == 2

\* source records per index, and the k of a top-k search
MaxSourceId == 2
TopK == 2

\* chunks a snapshot is transferred and written in
NChunks == 2
\* clock ticks the model runs for, and ticks per timestamp unit (one second)
MaxClock == 2
TicksPerSecond == 2
\* receipts that can be created
MaxRecord == 2

(***************************************************************************)
(* PART 1 - process_query                                                  *)
(***************************************************************************)
VARIABLES
    request,          \* the HTTP request: method and the raw query field
    pc,               \* position of process_query
    user_query,       \* the stripped query text
    search_terms,     \* output of extract_search_terms
    faiss_results,    \* output of search_with_faiss
    loop,             \* state of the code generation feedback loop
    attempt,          \* attempt counter of the loop
    feedback,         \* validation failure message carried to the next attempt
    candidate,        \* candidate under validation
    attempts_log,     \* CodeAttempt records by attempt number
    model_requests,   \* candidate requests sent to the model so far
    loop_result,      \* value returned by get_executable_code_with_feedback
    executable_code,  \* value process_query received from the loop
    executed,         \* artifacts handed to execute_code
    exec_result,      \* ExecutionResult
    run,              \* the run of the artifact: [state, behaviour, elapsed]
    verdict,          \* SafetyVerdict of detect_malicious_intent
    calls,            \* sequence of the stage functions invoked for the request
    response          \* the HTTP response

qvars == <<request, pc, user_query, search_terms, faiss_results, loop, attempt,
           feedback, candidate, attempts_log, model_requests, loop_result,
           executable_code, executed, exec_result, run, verdict, calls,
           response>>

execvars == <<exec_result, run>>

loopvars == <<loop, attempt, feedback, candidate, attempts_log, model_requests,
              loop_result>>

VARIABLES
    now,        \* the clock, in ticks
    versions,   \* versioned blobs: version name -> bytes
    latest,     \* latest alias blobs: kind -> [bytes, source]
    corpus,     \* receipts in the database
    job,        \* maintenance jobs: [pc, kind, src, name, rec]
    reader,     \* download_latest callers: [pc, kind, got, pos]
    cache,      \* local cache files: kind -> bytes
    window,     \* per reader: snapshots that were latest while it was running
    loaded      \* what the last load of a cache file read: [read, kind, bytes]

svars == <<now, versions, latest, corpus, job, reader, cache, window, loaded>>

\* ---- search_with_faiss: the merge of the hits of several indexes ----------
VARIABLES
    index_hits, \* kind -> the hits its index returned, best first
    queried,    \* the kinds queried so far, in the order they were queried
    merged,     \* the hits gathered so far, in the order they arrived
    ranked      \* the output of the search: [done, hits]

hvars == <<index_hits, queried, merged, ranked>>

\* ---- the tag views: the Tag table and its relation to the receipts ------
VARIABLES
    tags,         \* the rows of the Tag table: [id, user, name]
    receipt_tags, \* the rows of the many-to-many table: <<receipt, tag id>>
    tag_seq,      \* the last primary key the Tag table issued
    tag_call      \* the last call of a tag view and the response it got

tvars == <<tags, receipt_tags, tag_seq, tag_call>>

\* ---- the phone number flow: the users' numbers and the OTP cache --------
VARIABLES
    phone_number,   \* user -> the phone number stored on the user
    otp_cache,      \* user -> the entry under phone_otp_for_user_<id>
    verify,         \* user -> the auth_set_phone request under way
    phone_response  \* user -> the last response the user got

pvars == <<phone_number, otp_cache, verify, phone_response>>

\* the variables of the parts other than the pipeline and the index store
ovars == <<hvars, tvars, pvars>>

vars == <<qvars, svars, ovars>>

\* ---- values -------------------------------------------------------------
Chars == {" ", "q"}

SeqsUpTo(S, n) == UNION {[1..k -> S] : k \in 0..n}

\* the 'query' field of the request body: absent, a non-string JSON value,
\* or a text
RawQueries ==
    {[type |-> "missing", text |-> <<>>], [type |-> "number", text |-> <<>>]}
    \cup {[type |-> "str", text |-> t] : t \in SeqsUpTo(Chars, MaxQueryLen)}

Methods == {"POST", "GET"}

\* str(e) of the exceptions a stage can raise
ExcMessages == {"", "service unavailable"}

\* reasons a SafetyVerdict carries when is_rejected
Reasons == {"destructive request"}

ValidArtifacts == {"code_ok_1", "code_ok_2"}
InvalidArtifacts == {"code_bad_1", "code_bad_2"}
Artifacts == ValidArtifacts \cup InvalidArtifacts

NoFeedback == "<none>"
NoCode == "<unset>"

ExecResults ==
    {[type |-> "tabular", filename |-> ""],
     [type |-> "scalar", filename |-> ""],
     [type |-> "file", filename |-> "report.csv"],
     [type |-> "error", filename |-> ""]}
NoResult == [type |-> "unset", filename |-> ""]

\* what an artifact does when it is run
Behaviours == {"returns_rows", "returns_value", "writes_file", "raises",
               "never_finishes"}
NoRun == [state |-> "none", behaviour |-> "", elapsed |-> 0]

\* the ExecutionResult of a run that ended by itself
ResultOf(behaviour) ==
    CASE behaviour = "returns_rows" -> [type |-> "tabular", filename |-> ""]
      [] behaviour = "returns_value" -> [type |-> "scalar", filename |-> ""]
      [] behaviour = "writes_file" -> [type |-> "file", filename |-> "report.csv"]
      [] OTHER -> [type |-> "error", filename |-> ""]

\* the output of the ranking before it was computed
NotRanked == [done |-> FALSE, hits |-> <<>>]

\* faiss_results before search_with_faiss has returned
NotSearched == <<"<not searched>">>

NoVerdict == [outcome |-> "unset", reason |-> ""]

\* what format_results_with_gpt returns: a summary of the result, or the
\* generic answer it falls back to
Answers == {"summary", "could not summarize"}

\* output of extract_search_terms, and of search_with_faiss for given terms
TermSets == {<<>>, <<"groceries">>}
ResultsFor(terms) == IF terms = <<>> THEN {<<>>} ELSE {<<>>, <<"receipt_1">>}

Absent == "<absent>"

NoResponse ==
    [kind |-> "none", status |-> 0, stage |-> Absent, error |-> Absent,
     query |-> <<>>, code |-> Absent, result |-> Absent, filename |-> Absent]

\* ---- pure helpers -------------------------------------------------------
RECURSIVE LStrip(_)
LStrip(s) == IF s # <<>> /\ Head(s) = " " THEN LStrip(Tail(s)) ELSE s

RECURSIVE RStrip(_)
RStrip(s) ==
    IF s # <<>> /\ s[Len(s)] = " " THEN RStrip(SubSeq(s, 1, Len(s) - 1)) ELSE s

\* the text taken as it came, without .strip()
Strip_not_applied(s) == s

\* str.strip()
Strip(s) == RStrip(LStrip(s))

\* a failure response built without the 'stage' key
JsonResponse_without_stage(status, stage, error) ==
    [NoResponse EXCEPT !.kind = "json", !.status = status, !.error = error]

\* JsonResponse({'stage': ..., 'error': ...}, status=...)
JsonResponse(status, stage, error) ==
    [NoResponse EXCEPT !.kind = "json", !.status = status, !.stage = stage,
                       !.error = error]

\* JsonResponse({'error': ...}, status=...), without a stage key
JsonResponseNoStage(status, error) == JsonResponse(status, Absent, error)

\* JsonResponse({'query': ..., 'code': ..., 'result': ...})
JsonAnswer(q, code, pretty) ==
    [NoResponse EXCEPT !.kind = "json", !.status = 200, !.query = q,
                       !.code = code, !.result = pretty]

\* a file response that leaves the name to the default
FileResponse_unnamed(filename) ==
    [NoResponse EXCEPT !.kind = "file", !.status = 200, !.filename = "download"]

\* FileResponse(stream, as_attachment=True, filename=...)
FileResponse(filename) ==
    [NoResponse EXCEPT !.kind = "file", !.status = 200, !.filename = filename]

\* a call that allows one attempt more
max_attempts_plus_one == 3 + 1

\* views.py:89  max_attempts=3
max_attempts == 3

\* views.py:91  not executable_code or executable_code == "Unable to process query"
IsSentinel_only_empty(code) == code = ""

IsSentinel(code) == code = "" \/ code = "Unable to process query"

\* the values the loop returns when it is Exhausted
Sentinels == {"", "Unable to process query"}

\* validation of a candidate, without executing it
IsValid(c) == c \in ValidArtifacts

FeedbackFor(c) == "invalid candidate: " \o c

\* what attempt n is seeded with
Seed(q, ctx, fb) == [query |-> q, context |-> ctx, feedback |-> fb]

\* number of information items a seed carries
SeedSize(s) == 2 + (IF s.feedback = NoFeedback THEN 0 ELSE 1)

Respond(r) == /\ response' = r
              /\ pc' = "done"

\* ---- initial state ------------------------------------------------------
QInit ==
    /\ request \in [method : Methods, query : RawQueries]
    /\ pc = "start"
    /\ user_query = <<>>
    /\ search_terms = <<>>
    /\ faiss_results = NotSearched
    /\ loop = "Idle"
    /\ attempt = 0
    /\ feedback = NoFeedback
    /\ candidate = NoCode
    /\ attempts_log = <<>>
    /\ model_requests = 0
    /\ loop_result = NoCode
    /\ executable_code = NoCode
    /\ executed = <<>>
    /\ exec_result = NoResult
    /\ run = NoRun
    /\ verdict = NoVerdict
    /\ calls = <<>>
    /\ response = NoResponse

\* ---- process_query, stage by stage ----------------------------------------
\* views.py:35-49  method check, pull and validate the query
GetQuery ==
    /\ pc = "start"
    /\ UNCHANGED <<svars, ovars>>
    /\ UNCHANGED <<request, search_terms, faiss_results, loopvars,
                   executable_code, executed, execvars, verdict, calls>>
    /\ IF request.method # "POST"
       THEN /\ Respond(JsonResponseNoStage(405, "Only POST requests are supported"))
            /\ UNCHANGED user_query
       ELSE IF request.query.type = "number"
       THEN \* .strip() on a non-string value raises
            /\ Respond(JsonResponse(500, "get_query", "no attribute 'strip'"))
            /\ UNCHANGED user_query
       ELSE LET q == Strip(request.query.text)   \* a missing field reads as ''
            IN  IF q = <<>>
                THEN /\ Respond(JsonResponseNoStage(400, "Query is empty"))
                     /\ UNCHANGED user_query
                ELSE /\ user_query' = q
                     /\ pc' = "malicious_check"
                     /\ UNCHANGED response

\* the check with the is_bad branch falling through to the next stage
MaliciousCheck_ignores_verdict ==
    /\ pc = "malicious_check"
    /\ UNCHANGED <<svars, ovars>>
    /\ calls' = Append(calls, "detect_malicious_intent")
    /\ UNCHANGED <<request, user_query, search_terms, faiss_results, loopvars,
                   executable_code, executed, execvars>>
    /\ \/ \E e \in ExcMessages :
            /\ verdict' = [outcome |-> "raised", reason |-> ""]
            /\ Respond(JsonResponse(500, "malicious_check", e))
       \/ \E why \in Reasons :
            /\ verdict' = [outcome |-> "malicious", reason |-> why]
            /\ pc' = "load_models_file"
            /\ UNCHANGED response
       \/ /\ verdict' = [outcome |-> "benign", reason |-> ""]
          /\ pc' = "load_models_file"
          /\ UNCHANGED response

\* the check with an except branch that swallows the error (fail-open)
MaliciousCheck_fail_open ==
    /\ pc = "malicious_check"
    /\ UNCHANGED <<svars, ovars>>
    /\ calls' = Append(calls, "detect_malicious_intent")
    /\ UNCHANGED <<request, user_query, search_terms, faiss_results, loopvars,
                   executable_code, executed, execvars>>
    /\ \/ \E e \in ExcMessages :
            /\ verdict' = [outcome |-> "raised", reason |-> ""]
            /\ pc' = "load_models_file"
            /\ UNCHANGED response
       \/ \E why \in Reasons :
            /\ verdict' = [outcome |-> "malicious", reason |-> why]
            /\ Respond(JsonResponse(400, "malicious_check",
                                    "Query not allowed: " \o why))
       \/ /\ verdict' = [outcome |-> "benign", reason |-> ""]
          /\ pc' = "load_models_file"
          /\ UNCHANGED response

\* views.py:51-58  malicious-intent check
MaliciousCheck ==
    /\ pc = "malicious_check"
    /\ UNCHANGED <<svars, ovars>>
    /\ calls' = Append(calls, "detect_malicious_intent")
    /\ UNCHANGED <<request, user_query, search_terms, faiss_results, loopvars,
                   executable_code, executed, execvars>>
    /\ \/ \E e \in ExcMessages :          \* the classification call raises
            /\ verdict' = [outcome |-> "raised", reason |-> ""]
            /\ Respond(JsonResponse(500, "malicious_check", e))
       \/ \E why \in Reasons :            \* is_bad, why = True, why
            /\ verdict' = [outcome |-> "malicious", reason |-> why]
            /\ Respond(JsonResponse(400, "malicious_check",
                                    "Query not allowed: " \o why))
       \/ /\ verdict' = [outcome |-> "benign", reason |-> ""]
          /\ pc' = "load_models_file"
          /\ UNCHANGED response

\* views.py:60-66  load models.txt
LoadModelsFile ==
    /\ pc = "load_models_file"
    /\ UNCHANGED <<svars, ovars>>
    /\ calls' = Append(calls, "load_models_file")
    /\ UNCHANGED <<request, user_query, search_terms, faiss_results, loopvars,
                   executable_code, executed, execvars, verdict>>
    /\ \/ \E e \in ExcMessages : Respond(JsonResponse(500, "load_models_file", e))
       \/ /\ pc' = "load_faiss"
          /\ UNCHANGED response

\* the except branch building its response without returning it
LoadFaiss_no_return ==
    /\ pc = "load_faiss"
    /\ UNCHANGED <<svars, ovars>>
    /\ calls' = Append(calls, "load_faiss_indexes")
    /\ UNCHANGED <<request, user_query, search_terms, faiss_results, loopvars,
                   executable_code, executed, execvars, verdict>>
    /\ \/ \E e \in ExcMessages :
            /\ response' = JsonResponse(500, "load_faiss", e)
            /\ pc' = "semantic_search"
       \/ /\ pc' = "semantic_search"
          /\ UNCHANGED response

\* the index load held back while a maintenance job is writing to the store
LoadFaiss_waits_for_jobs ==
    /\ pc = "load_faiss"
    /\ \A j \in DOMAIN job : job[j].pc \notin {"built", "uploaded", "signed"}
    /\ UNCHANGED <<svars, ovars>>
    /\ calls' = Append(calls, "load_faiss_indexes")
    /\ UNCHANGED <<request, user_query, search_terms, faiss_results, loopvars,
                   executable_code, executed, execvars, verdict>>
    /\ \/ \E e \in ExcMessages : Respond(JsonResponse(500, "load_faiss", e))
       \/ /\ pc' = "semantic_search"
          /\ UNCHANGED response

\* views.py:68-72  load FAISS indexes
LoadFaiss ==
    /\ pc = "load_faiss"
    /\ UNCHANGED <<svars, ovars>>
    /\ calls' = Append(calls, "load_faiss_indexes")
    /\ UNCHANGED <<request, user_query, search_terms, faiss_results, loopvars,
                   executable_code, executed, execvars, verdict>>
    /\ \/ \E e \in ExcMessages : Respond(JsonResponse(500, "load_faiss", e))
       \/ /\ pc' = "semantic_search"
          /\ UNCHANGED response

\* the search stage answering an empty result with a failure
SemanticSearch_rejects_no_hits ==
    /\ pc = "semantic_search"
    /\ UNCHANGED <<svars, ovars>>
    /\ UNCHANGED <<request, user_query, loopvars, executable_code, executed,
                   execvars, verdict>>
    /\ \/ \E e \in ExcMessages :          \* extract_search_terms raises
            /\ calls' = Append(calls, "extract_search_terms")
            /\ Respond(JsonResponse(500, "semantic_search", e))
            /\ UNCHANGED <<search_terms, faiss_results>>
       \/ \E e \in ExcMessages, terms \in TermSets :   \* the embedder raises
            /\ calls' = calls \o <<"extract_search_terms", "SentenceTransformer">>
            /\ search_terms' = terms
            /\ Respond(JsonResponse(500, "semantic_search", e))
            /\ UNCHANGED faiss_results
       \/ \E e \in ExcMessages, terms \in TermSets :   \* search_with_faiss raises
            /\ calls' = calls \o <<"extract_search_terms", "SentenceTransformer",
                                    "search_with_faiss">>
            /\ search_terms' = terms
            /\ Respond(JsonResponse(500, "semantic_search", e))
            /\ UNCHANGED faiss_results
       \/ \E terms \in TermSets : \E res \in ResultsFor(terms) :
            /\ calls' = calls \o <<"extract_search_terms", "SentenceTransformer",
                                    "search_with_faiss">>
            /\ search_terms' = terms
            /\ faiss_results' = res
            /\ IF res = <<>>
               THEN Respond(JsonResponse(500, "semantic_search", "no results"))
               ELSE /\ pc' = "code_gen"
                    /\ UNCHANGED response

\* views.py:74-80  NLP extraction + search
SemanticSearch ==
    /\ pc = "semantic_search"
    /\ UNCHANGED <<svars, ovars>>
    /\ UNCHANGED <<request, user_query, loopvars, executable_code, executed,
                   execvars, verdict>>
    /\ \/ \E e \in ExcMessages :          \* extract_search_terms raises
            /\ calls' = Append(calls, "extract_search_terms")
            /\ Respond(JsonResponse(500, "semantic_search", e))
            /\ UNCHANGED <<search_terms, faiss_results>>
       \/ \E e \in ExcMessages, terms \in TermSets :   \* the embedder raises
            /\ calls' = calls \o <<"extract_search_terms", "SentenceTransformer">>
            /\ search_terms' = terms
            /\ Respond(JsonResponse(500, "semantic_search", e))
            /\ UNCHANGED faiss_results
       \/ \E e \in ExcMessages, terms \in TermSets :   \* search_with_faiss raises
            /\ calls' = calls \o <<"extract_search_terms", "SentenceTransformer",
                                    "search_with_faiss">>
            /\ search_terms' = terms
            /\ Respond(JsonResponse(500, "semantic_search", e))
            /\ UNCHANGED faiss_results
       \/ \E terms \in TermSets : \E res \in ResultsFor(terms) :
            /\ calls' = calls \o <<"extract_search_terms", "SentenceTransformer",
                                    "search_with_faiss">>
            /\ search_terms' = terms
            /\ faiss_results' = res
            /\ pc' = "code_gen"
            /\ UNCHANGED response

\* views.py:83-90,94-95  call get_executable_code_with_feedback
CodeGenCall ==
    /\ pc = "code_gen"
    /\ UNCHANGED <<svars, ovars>>
    /\ loop = "Idle"
    /\ calls' = Append(calls, "get_executable_code_with_feedback")
    /\ UNCHANGED <<request, user_query, search_terms, faiss_results, attempt,
                   feedback, candidate, attempts_log, model_requests, loop_result,
                   executable_code, executed, execvars, verdict>>
    /\ \/ \E e \in ExcMessages :          \* the call raises before the loop runs
            /\ Respond(JsonResponse(500, "code_gen", e))
            /\ UNCHANGED loop
       \/ /\ loop' = "Drafting"
          /\ UNCHANGED <<pc, response>>

\* ---- get_executable_code_with_feedback: the feedback loop ----------------
\* States Drafting -> Validating -> {Accepted, Retrying, Exhausted}.  The
\* function (chatbot/utils/query_processor.py) is modelled from its
\* description; process_query's side of the call is modelled from views.py.
LogAttempt(n, rec) ==
    [k \in DOMAIN attempts_log \cup {n} |-> IF k = n THEN rec ELSE attempts_log[k]]

\* Drafting with every attempt seeded like the first, the feedback dropped
Draft_without_feedback ==
    /\ pc = "code_gen"
    /\ UNCHANGED <<svars, ovars>>
    /\ loop = "Drafting"
    /\ model_requests < MaxModelRequests
    /\ \E c \in Artifacts :
         /\ candidate' = c
         /\ attempt' = attempt + 1
         /\ model_requests' = model_requests + 1
         /\ attempts_log' = LogAttempt(attempt + 1,
                [attempt_number |-> attempt + 1,
                 seed |-> Seed(user_query, faiss_results, NoFeedback),
                 generated_artifact |-> c,
                 validation_outcome |-> "pending",
                 feedback_message |-> NoFeedback])
    /\ loop' = "Validating"
    /\ UNCHANGED <<request, pc, user_query, search_terms, faiss_results, feedback,
                   loop_result, executable_code, executed, execvars, verdict,
                   calls, response>>

\* Drafting: request one candidate from the model
Draft ==
    /\ pc = "code_gen"
    /\ UNCHANGED <<svars, ovars>>
    /\ loop = "Drafting"
    /\ model_requests < MaxModelRequests
    /\ \E c \in Artifacts :
         /\ candidate' = c
         /\ attempt' = attempt + 1
         /\ model_requests' = model_requests + 1
         /\ attempts_log' = LogAttempt(attempt + 1,
                [attempt_number |-> attempt + 1,
                 seed |-> Seed(user_query, faiss_results, feedback),
                 generated_artifact |-> c,
                 validation_outcome |-> "pending",
                 feedback_message |-> NoFeedback])
    /\ loop' = "Validating"
    /\ UNCHANGED <<request, pc, user_query, search_terms, faiss_results, feedback,
                   loop_result, executable_code, executed, execvars, verdict,
                   calls, response>>

\* Validating with the exhaustion test left out: an invalid candidate always
\* leads to another attempt
Validate_never_exhausts ==
    /\ pc = "code_gen"
    /\ UNCHANGED <<svars, ovars>>
    /\ loop = "Validating"
    /\ UNCHANGED <<request, pc, user_query, search_terms, faiss_results, attempt,
                   candidate, model_requests, executable_code, executed,
                   execvars, verdict, calls, response>>
    /\ IF IsValid(candidate)
       THEN /\ loop' = "Accepted"
            /\ loop_result' = candidate
            /\ attempts_log' = [attempts_log EXCEPT
                                  ![attempt].validation_outcome = "valid"]
            /\ UNCHANGED feedback
       ELSE /\ feedback' = FeedbackFor(candidate)
            /\ attempts_log' = [attempts_log EXCEPT
                                  ![attempt].validation_outcome = "invalid",
                                  ![attempt].feedback_message = FeedbackFor(candidate)]
            /\ loop' = "Retrying"
            /\ UNCHANGED loop_result

\* Validating: accept the first valid candidate; retry while attempts remain;
\* otherwise give up with the sentinel
Validate ==
    /\ pc = "code_gen"
    /\ UNCHANGED <<svars, ovars>>
    /\ loop = "Validating"
    /\ UNCHANGED <<request, pc, user_query, search_terms, faiss_results, attempt,
                   candidate, model_requests, executable_code, executed,
                   execvars, verdict, calls, response>>
    /\ IF IsValid(candidate)
       THEN /\ loop' = "Accepted"
            /\ loop_result' = candidate
            /\ attempts_log' = [attempts_log EXCEPT
                                  ![attempt].validation_outcome = "valid"]
            /\ UNCHANGED feedback
       ELSE /\ feedback' = FeedbackFor(candidate)
            /\ attempts_log' = [attempts_log EXCEPT
                                  ![attempt].validation_outcome = "invalid",
                                  ![attempt].feedback_message = FeedbackFor(candidate)]
            /\ IF attempt < max_attempts
               THEN /\ loop' = "Retrying"
                    /\ UNCHANGED loop_result
               ELSE /\ loop' = "Exhausted"
                    /\ loop_result' \in Sentinels

\* Retrying: back to Drafting, carrying the feedback
Retry ==
    /\ pc = "code_gen"
    /\ UNCHANGED <<svars, ovars>>
    /\ loop = "Retrying"
    /\ loop' = "Drafting"
    /\ UNCHANGED <<request, pc, user_query, search_terms, faiss_results, attempt,
                   feedback, candidate, attempts_log, model_requests, loop_result,
                   executable_code, executed, execvars, verdict, calls,
                   response>>

\* the return handled without the sentinel test
CodeGenReturn_unchecked ==
    /\ pc = "code_gen"
    /\ UNCHANGED <<svars, ovars>>
    /\ loop \in {"Accepted", "Exhausted"}
    /\ executable_code' = loop_result
    /\ UNCHANGED <<request, user_query, search_terms, faiss_results, loopvars,
                   executed, execvars, verdict, calls>>
    /\ pc' = "code_exec"
    /\ UNCHANGED response

\* views.py:84,91-93  the loop returned: test for the sentinel
CodeGenReturn ==
    /\ pc = "code_gen"
    /\ UNCHANGED <<svars, ovars>>
    /\ loop \in {"Accepted", "Exhausted"}
    /\ executable_code' = loop_result
    /\ UNCHANGED <<request, user_query, search_terms, faiss_results, loopvars,
                   executed, execvars, verdict, calls>>
    /\ IF IsSentinel(loop_result)
       THEN Respond(JsonResponse(400, "code_gen",
                                 "Unable to generate executable code"))
       ELSE /\ pc' = "code_exec"
            /\ UNCHANGED response

\* views.py:97-101  code execution: execute_code is called and starts the
\* artifact, or the call raises
CodeExec ==
    /\ pc = "code_exec"
    /\ UNCHANGED <<svars, ovars>>
    /\ run.state = "none"
    /\ calls' = Append(calls, "execute_code")
    /\ executed' = Append(executed, executable_code)
    /\ UNCHANGED <<request, user_query, search_terms, faiss_results, loopvars,
                   executable_code, exec_result, verdict>>
    /\ \/ \E e \in ExcMessages :          \* the artifact could not be started
            /\ Respond(JsonResponse(500, "code_exec", e))
            /\ UNCHANGED run
       \/ \E b \in Behaviours :
            /\ run' = [state |-> "running", behaviour |-> b, elapsed |-> 0]
            /\ UNCHANGED <<pc, response>>

\* ---- execute_code: the run of the artifact --------------------------------
\* The function (chatbot/utils/query_processor.py) is modelled from its
\* description: the artifact runs under a wall-clock limit, and whatever
\* happens to it comes back to process_query as an ExecutionResult.
\* the artifact keeps running for another tick
ArtifactRuns ==
    /\ pc = "code_exec"
    /\ UNCHANGED <<svars, ovars>>
    /\ run.state = "running"
    /\ run.elapsed < ExecTimeout
    /\ run' = [run EXCEPT !.elapsed = @ + 1]
    /\ UNCHANGED <<request, pc, user_query, search_terms, faiss_results, loopvars,
                   executable_code, executed, exec_result, verdict, calls,
                   response>>

\* a runtime fault of the artifact left to propagate to the caller
ArtifactEnds_fault_propagates ==
    /\ pc = "code_exec"
    /\ UNCHANGED <<svars, ovars>>
    /\ run.state = "running"
    /\ run.behaviour # "never_finishes"
    /\ run.elapsed < ExecTimeout
    /\ run' = [run EXCEPT !.state = "returned"]
    /\ UNCHANGED <<request, user_query, search_terms, faiss_results, loopvars,
                   executable_code, executed, verdict, calls>>
    /\ IF run.behaviour = "raises"
       THEN /\ Respond(JsonResponse(500, "code_exec", "artifact fault"))
            /\ UNCHANGED exec_result
       ELSE /\ exec_result' = ResultOf(run.behaviour)
            /\ pc' = "deliver"
            /\ UNCHANGED response

\* the artifact ends within the limit: its rows, value or file come back, a
\* runtime fault comes back as the Error variant
ArtifactEnds ==
    /\ pc = "code_exec"
    /\ UNCHANGED <<svars, ovars>>
    /\ run.state = "running"
    /\ run.behaviour # "never_finishes"
    /\ run.elapsed < ExecTimeout
    /\ run' = [run EXCEPT !.state = "returned"]
    /\ exec_result' = ResultOf(run.behaviour)
    /\ pc' = "deliver"
    /\ UNCHANGED <<request, user_query, search_terms, faiss_results, loopvars,
                   executable_code, executed, verdict, calls, response>>

\* the limit is reached and the watchdog is armed again, the run goes on
ExecTimesOut_rearmed ==
    /\ pc = "code_exec"
    /\ UNCHANGED <<svars, ovars>>
    /\ run.state = "running"
    /\ run.elapsed = ExecTimeout
    /\ run' = [run EXCEPT !.elapsed = 0]
    /\ UNCHANGED <<request, pc, user_query, search_terms, faiss_results, loopvars,
                   executable_code, executed, exec_result, verdict, calls,
                   response>>

\* the limit is reached: the run is terminated and the Error variant returned
ExecTimesOut ==
    /\ pc = "code_exec"
    /\ UNCHANGED <<svars, ovars>>
    /\ run.state = "running"
    /\ run.elapsed = ExecTimeout
    /\ run' = [run EXCEPT !.state = "timed_out"]
    /\ exec_result' = [type |-> "error", filename |-> ""]
    /\ pc' = "deliver"
    /\ UNCHANGED <<request, user_query, search_terms, faiss_results, loopvars,
                   executable_code, executed, verdict, calls, response>>

\* views.py:103-113  a file-type result is streamed back
DeliverFile ==
    /\ pc = "deliver"
    /\ UNCHANGED <<svars, ovars>>
    /\ exec_result.type = "file"
    /\ UNCHANGED <<request, user_query, search_terms, faiss_results, loopvars,
                   executable_code, executed, execvars, verdict, calls>>
    /\ \/ \E e \in ExcMessages : Respond(JsonResponse(500, "file_response", e))
       \/ Respond(FileResponse(exec_result.filename))

\* views.py:115-124  format + return JSON
FormatResult ==
    /\ pc = "deliver"
    /\ UNCHANGED <<svars, ovars>>
    /\ exec_result.type # "file"
    /\ calls' = Append(calls, "format_results_with_gpt")
    /\ UNCHANGED <<request, user_query, search_terms, faiss_results, loopvars,
                   executable_code, executed, execvars, verdict>>
    /\ \/ \E e \in ExcMessages : Respond(JsonResponse(500, "format_result", e))
       \/ \E pretty \in Answers :
            Respond(JsonAnswer(user_query, executable_code, pretty))

QNext ==
    \/ GetQuery
    \/ MaliciousCheck
    \/ LoadModelsFile
    \/ LoadFaiss
    \/ SemanticSearch
    \/ CodeGenCall
    \/ Draft
    \/ Validate
    \/ Retry
    \/ CodeGenReturn
    \/ CodeExec
    \/ ArtifactRuns
    \/ ArtifactEnds
    \/ ExecTimesOut
    \/ DeliverFile
    \/ FormatResult

(***************************************************************************)
(* PART 2 - the versioned index store, upload_version, download_latest     *)
(*                                                                         *)
(* Each call on the blob service (upload_blob, start_copy_from_url with    *)
(* requires_sync=True, download_blob().readall()) is one step: it takes    *)
(* effect as a whole or raises and changes nothing.  The steps of one      *)
(* upload_version or download_latest call interleave freely with those of  *)
(* the other callers.  The local cache file is written chunk by chunk.     *)
(* append_for_receipt and full_rebuild (chatbot/utils/faiss_utils.py) are  *)
(* modelled from their description: they build a snapshot and hand it to   *)
(* upload_version.                                                         *)
(***************************************************************************)
Kinds == {"receipt", "item"}
\* two maintenance jobs run concurrently, each calling upload_version once
Jobs == {"job_a", "job_b"}
\* one cache refresh runs against the jobs
Readers == {"refresh"}
Records == 1..MaxRecord

\* strftime("%Y%m%d%H%M%S"): the time truncated to whole seconds
FormatTs(t) == t \div TicksPerSecond

\* f"{PREF}{kind}_{ts}.faiss"
VersionName(kind, ts) == <<kind, ts>>

\* bytes of a serialized index, chunk by chunk
Serialize(index) == [i \in 1..NChunks |-> <<i, index>>]

\* a complete snapshot: every chunk of one index, in order
IsComplete(bytes) == \E ix \in SUBSET Records : bytes = Serialize(ix)

\* the index read back from bytes (what its first chunk holds)
Deserialize(bytes) == IF bytes = <<>> THEN {} ELSE bytes[1][2]

ZeroChunk == <<0, {}>>

\* rec: the receipt an append job adds, 0 for a rebuild
IdleJob == [pc |-> "idle", kind |-> "", src |-> <<>>, name |-> <<"", 0>>,
            rec |-> 0]
IdleReader == [pc |-> "idle", kind |-> "", got |-> <<>>, pos |-> 0]
NoLoad == [read |-> FALSE, kind |-> "", bytes |-> <<>>]

SInit ==
    /\ now = 0
    /\ versions = <<>>
    /\ latest = <<>>
    /\ corpus = {}
    /\ job = [j \in Jobs |-> IdleJob]
    /\ reader = [r \in Readers |-> IdleReader]
    /\ cache = [k \in Kinds |-> <<>>]
    /\ window = [r \in Readers |-> {}]
    /\ loaded = NoLoad

Tick ==
    /\ UNCHANGED <<qvars, loaded, ovars>>
    /\ now < MaxClock
    /\ now' = now + 1
    /\ UNCHANGED <<versions, latest, corpus, job, reader, cache, window>>

\* the index the current latest alias of a kind holds (empty before the first)
LatestIndex(kind) ==
    IF kind \in DOMAIN latest THEN Deserialize(latest[kind].bytes) ELSE {}

\* tasks.py:4-6  append_faiss_vectors: a new receipt is merged into a fresh
\* snapshot derived from the current latest
AppendStart(j, rec, kind) ==
    /\ UNCHANGED <<qvars, loaded, ovars>>
    /\ job[j].pc = "idle"
    /\ rec \notin corpus
    /\ corpus' = corpus \cup {rec}
    /\ job' = [job EXCEPT ![j] = [pc |-> "built", kind |-> kind,
                                  src |-> Serialize(LatestIndex(kind) \cup {rec}),
                                  name |-> <<"", 0>>, rec |-> rec]]
    /\ UNCHANGED <<now, versions, latest, reader, cache, window>>

\* tasks.py:8-10  nightly_rebuild_faiss: the whole corpus is re-embedded
RebuildStart(j, kind) ==
    /\ UNCHANGED <<qvars, loaded, ovars>>
    /\ job[j].pc = "idle"
    /\ job' = [job EXCEPT ![j] = [pc |-> "built", kind |-> kind,
                                  src |-> Serialize(corpus), name |-> <<"", 0>>,
                                  rec |-> 0]]
    /\ UNCHANGED <<now, versions, latest, corpus, reader, cache, window>>

\* upload_blob(data, overwrite=True): the blob under a name is replaced whole
PutBlob(store, name, bytes) ==
    [n \in DOMAIN store \cup {name} |-> IF n = name THEN bytes ELSE store[n]]

\* the exception propagates to the calling job
JobFails(j) ==
    job' = [job EXCEPT ![j].pc = "failed", ![j].src = <<>>]

\* azure_blob.py:44-50  name the version by the current second, upload it
UploadBlob(j) ==
    /\ UNCHANGED <<qvars, loaded, ovars>>
    /\ job[j].pc = "built"
    /\ UNCHANGED <<now, latest, corpus, reader, cache, window>>
    /\ \/ /\ JobFails(j)
          /\ UNCHANGED versions
       \/ LET name == VersionName(job[j].kind, FormatTs(now))
          IN  /\ versions' = PutBlob(versions, name, job[j].src)
              /\ job' = [job EXCEPT ![j].pc = "uploaded", ![j].name = name]

\* azure_blob.py:52-61  build a read-only SAS for the new version
GenerateSas(j) ==
    /\ UNCHANGED <<qvars, loaded, ovars>>
    /\ job[j].pc = "uploaded"
    /\ UNCHANGED <<now, versions, latest, corpus, reader, cache, window>>
    /\ \/ JobFails(j)
       \/ job' = [job EXCEPT ![j].pc = "signed"]

\* a copy that rewrites the destination in place, chunk by chunk, and is seen
\* after its first chunk
InPlaceRewrite(dst, kind, name, bytes) ==
    LET old == IF kind \in DOMAIN dst THEN dst[kind].bytes ELSE <<>>
        mix == [i \in 1..Len(bytes) |->
                   IF i = 1 THEN bytes[1]
                   ELSE IF i <= Len(old) THEN old[i] ELSE ZeroChunk]
    IN  [k \in DOMAIN dst \cup {kind} |->
            IF k = kind THEN [bytes |-> mix, source |-> name] ELSE dst[k]]

\* a copy issued on the alias name of another kind
ServerSideCopy_wrong_alias(dst, kind, name, bytes) ==
    LET other == IF kind = "receipt" THEN "item" ELSE "receipt"
    IN  [k \in DOMAIN dst \cup {other} |->
            IF k = other THEN [bytes |-> bytes, source |-> name] ELSE dst[k]]

\* start_copy_from_url(source_url, requires_sync=True): the destination blob
\* is replaced whole by the source's bytes, and records its copy source
ServerSideCopy(dst, kind, name, bytes) ==
    [k \in DOMAIN dst \cup {kind} |->
        IF k = kind THEN [bytes |-> bytes, source |-> name] ELSE dst[k]]

\* azure_blob.py:63-64  server-side copy -> latest
CopyToLatest(j) ==
    /\ UNCHANGED <<qvars, loaded, ovars>>
    /\ job[j].pc = "signed"
    /\ UNCHANGED <<now, versions, corpus, reader, cache>>
    /\ \/ /\ JobFails(j)
          /\ UNCHANGED <<latest, window>>
       \/ LET kind == job[j].kind
              name == job[j].name
          IN  /\ latest' = ServerSideCopy(latest, kind, name, versions[name])
              /\ job' = [job EXCEPT ![j].pc = "done", ![j].src = <<>>]
              /\ window' = [r \in DOMAIN window |->
                    IF reader[r].pc = "opened" /\ reader[r].kind = kind
                    THEN window[r] \cup {versions[name]} ELSE window[r]]

\* the file after a write of one chunk at offset pos (holes read as zeros)
WriteAt(file, pos, chunk) ==
    [i \in 1..(IF pos > Len(file) THEN pos ELSE Len(file)) |->
        IF i = pos THEN chunk
        ELSE IF i <= Len(file) THEN file[i] ELSE ZeroChunk]

\* azure_blob.py:36-39  open(dest, "wb") truncates the cache file
OpenDest(r, kind) ==
    /\ UNCHANGED <<qvars, loaded, ovars>>
    /\ reader[r].pc \in {"idle", "done", "failed"}
    /\ reader' = [reader EXCEPT ![r] = [pc |-> "opened", kind |-> kind,
                                        got |-> <<>>, pos |-> 0]]
    /\ cache' = [cache EXCEPT ![kind] = <<>>]
    /\ window' = [window EXCEPT ![r] =
                    IF kind \in DOMAIN latest THEN {latest[kind].bytes} ELSE {}]
    /\ UNCHANGED <<now, versions, latest, corpus, job>>

\* azure_blob.py:40  blob.download_blob().readall()
Download(r) ==
    /\ UNCHANGED <<qvars, loaded, ovars>>
    /\ reader[r].pc = "opened"
    /\ UNCHANGED <<now, versions, latest, corpus, job, cache, window>>
    /\ \/ reader' = [reader EXCEPT ![r].pc = "failed"]  \* not found, or the call fails
       \/ /\ reader[r].kind \in DOMAIN latest
          /\ reader' = [reader EXCEPT ![r].pc = "writing",
                                      ![r].got = latest[reader[r].kind].bytes]

\* azure_blob.py:40  fh.write(...), one chunk at the caller's file offset
WriteChunk(r) ==
    /\ UNCHANGED <<qvars, loaded, ovars>>
    /\ reader[r].pc = "writing"
    /\ reader[r].pos < Len(reader[r].got)
    /\ LET pos == reader[r].pos + 1
       IN  /\ cache' = [cache EXCEPT ![reader[r].kind] =
                          WriteAt(@, pos, reader[r].got[pos])]
           /\ reader' = [reader EXCEPT ![r].pos = pos]
    /\ UNCHANGED <<now, versions, latest, corpus, job, window>>

\* azure_blob.py:39-40  leaving the with block closes the file
CloseDest(r) ==
    /\ UNCHANGED <<qvars, loaded, ovars>>
    /\ reader[r].pc = "writing"
    /\ reader[r].pos = Len(reader[r].got)
    /\ reader' = [reader EXCEPT ![r].pc = "done"]
    /\ UNCHANGED <<now, versions, latest, corpus, job, cache, window>>

\* views.py:70  load_faiss_indexes: a request reads the cache file of a kind
\* as it is at that moment
LoadIndex(kind) ==
    /\ UNCHANGED <<qvars, ovars>>
    /\ loaded' = [read |-> TRUE, kind |-> kind, bytes |-> cache[kind]]
    /\ UNCHANGED <<now, versions, latest, corpus, job, reader, cache, window>>

SNext ==
    \/ Tick
    \/ \E j \in Jobs, rec \in Records, kind \in Kinds : AppendStart(j, rec, kind)
    \/ \E j \in Jobs, kind \in Kinds : RebuildStart(j, kind)
    \/ \E j \in Jobs : UploadBlob(j)
    \/ \E j \in Jobs : GenerateSas(j)
    \/ \E j \in Jobs : CopyToLatest(j)
    \/ \E r \in Readers, kind \in Kinds : OpenDest(r, kind)
    \/ \E r \in Readers : Download(r)
    \/ \E r \in Readers : WriteChunk(r)
    \/ \E r \in Readers : CloseDest(r)

(***************************************************************************)
(* PART 3 - search_with_faiss: merge and ranking of the hits               *)
(*                                                                         *)
(* The function (chatbot/utils/query_processor.py) is modelled from its    *)
(* description: every index answers with its top k hits, the answers are   *)
(* gathered in the order the indexes were queried, ranked by score, then   *)
(* source recency, then source_id, and cut to k.                           *)
(***************************************************************************)
Scores == {1, 2}
Recencies == {1, 2}

\* SearchResult {source_id, similarity_score, snippet}, with the recency of
\* its source; the snippet is the text of the source record
HitsOf(kind) ==
    {[source_id |-> i, score |-> sc, recency |-> r, snippet |-> <<kind, i>>] :
        i \in 1..MaxSourceId, sc \in Scores, r \in Recencies}

\* a ranks strictly before b by score only
Before_by_score_only(a, b) == a.score > b.score

\* a ranks strictly before b: higher score, then more recent source, then
\* smaller source_id
Before(a, b) ==
    \/ a.score > b.score
    \/ a.score = b.score /\ a.recency > b.recency
    \/ a.score = b.score /\ a.recency = b.recency /\ a.source_id < b.source_id

RankKey(h) == <<h.score, h.recency, h.source_id>>

\* what one index can answer: at most k hits, one per source record
IndexAnswers(kind) ==
    {S \in SUBSET HitsOf(kind) :
        /\ Cardinality(S) <= TopK
        /\ \A a, b \in S : a.source_id = b.source_id => a = b}

\* the hits of one index, best first
RECURSIVE BestFirst(_)
BestFirst(S) ==
    IF S = {} THEN <<>>
    ELSE LET best == CHOOSE x \in S :
                        \A y \in S \ {x} :
                            \/ y.score < x.score
                            \/ y.score = x.score /\ y.source_id > x.source_id
         IN  <<best>> \o BestFirst(S \ {best})

\* x put into a ranked sequence, behind the hits it does not rank before
RECURSIVE Insert(_, _)
Insert(x, s) ==
    IF s = <<>> THEN <<x>>
    ELSE IF Before(x, Head(s)) THEN <<x>> \o s
    ELSE <<Head(s)>> \o Insert(x, Tail(s))

\* a stable sort: hits that do not rank before one another stay in the order
\* they arrived in
RECURSIVE StableSort(_)
StableSort(s) ==
    IF s = <<>> THEN <<>>
    ELSE Insert(s[Len(s)], StableSort(SubSeq(s, 1, Len(s) - 1)))

Truncate(s, k) == SubSeq(s, 1, IF Len(s) < k THEN Len(s) ELSE k)

\* the answers the indexes will give to the search
HInit ==
    /\ \E receipts \in IndexAnswers("receipt"), items \in IndexAnswers("item") :
          index_hits = [k \in Kinds |->
                          IF k = "receipt" THEN BestFirst(receipts)
                          ELSE BestFirst(items)]
    /\ queried = <<>>
    /\ merged = <<>>
    /\ ranked = NotRanked

\* the top-k query against the index of one kind
QueryIndex(kind) ==
    /\ UNCHANGED <<qvars, svars, tvars, pvars>>
    /\ ranked = NotRanked
    /\ \A i \in DOMAIN queried : queried[i] # kind
    /\ queried' = Append(queried, kind)
    /\ merged' = merged \o index_hits[kind]
    /\ UNCHANGED <<index_hits, ranked>>

\* every index has answered: rank the merge and cut it to k
RankMerged ==
    /\ UNCHANGED <<qvars, svars, tvars, pvars>>
    /\ ranked = NotRanked
    /\ Len(queried) = Cardinality(Kinds)
    /\ ranked' = [done |-> TRUE, hits |-> Truncate(StableSort(merged), TopK)]
    /\ UNCHANGED <<index_hits, queried, merged>>

HNext ==
    \/ \E kind \in Kinds : QueryIndex(kind)
    \/ RankMerged

(***************************************************************************)
(* PART 4 - the tag views: tag_listall, tag_add, tag_remove, tag_delete,   *)
(*          tag_edit_name                                                  *)
(***************************************************************************)
MaxTagId == 2

Users == {"user", "other_user"}

Receipts == {"receipt", "receipt2", "other_receipt"}

OwnerOf(r) == IF r = "other_receipt" THEN "other_user" ELSE "user"

\* a request field that is absent or falsy: None, "" or 0
MissingReceipt == "<missing>"
MissingName == ""
MissingTagId == 0

\* the values a caller may send
ReceiptIds == Receipts \cup {"no_such_receipt", MissingReceipt}
TagIds == 0 .. MaxTagId
TagNames == {"a", "A", MissingName}

\* TagSummarySerializer
TagSummary(t) == [id |-> t.id, name |-> t.name]

\* ReceiptSerializer, as far as tags go
ReceiptData(r, rows, rel) ==
    [id |-> r,
     tags |-> {TagSummary(t) : t \in {x \in rows : <<r, x.id>> \in rel}}]

\* TagSerializer
TagData(t, rel) ==
    [id |-> t.id, name |-> t.name,
     receipts |-> {r \in Receipts : <<r, t.id>> \in rel}]

NoCall ==
    [user |-> "<none>", op |-> "<none>", receipt_id |-> MissingReceipt,
     tag_id |-> MissingTagId, name |-> MissingName, status |-> 0,
     tag_deleted |-> "absent", receipts |-> {}, tags |-> {}]

\* the record of a call and of the response it got
Called(u, op, receipt_id, tag_id, name, status, tag_deleted, rs, ts) ==
    [user |-> u, op |-> op, receipt_id |-> receipt_id, tag_id |-> tag_id,
     name |-> name, status |-> status, tag_deleted |-> tag_deleted,
     receipts |-> rs, tags |-> ts]

\* get_object_or_404(Receipt, pk=receipt_id, user=user): the rows it finds
GetReceipt(u, receipt_id) ==
    {r \in Receipts : r = receipt_id /\ OwnerOf(r) = u}

\* the same lookup without the owner filter
GetTag_of_any_user(u, tag_id) == {t \in tags : t.id = tag_id}

\* get_object_or_404(Tag, pk=tag_id, user=user): the rows it finds
GetTag(u, tag_id) == {t \in tags : t.id = tag_id /\ t.user = u}

\* Tag.objects.filter(user=user, name=name)
TagsNamed(u, name) == {t \in tags : t.user = u /\ t.name = name}

\* an empty database
TInit ==
    /\ tags = {}
    /\ receipt_tags = {}
    /\ tag_seq = 0
    /\ tag_call = NoCall

tag_listall(u) ==
    /\ UNCHANGED <<qvars, svars, hvars, pvars>>
    /\ tag_call' = Called(u, "tag_listall", MissingReceipt, MissingTagId,
                          MissingName, 200, "absent", {},
                          {TagData(t, receipt_tags) :
                              t \in {x \in tags : x.user = u}})
    /\ UNCHANGED <<tags, receipt_tags, tag_seq>>

\* a refusal: the response carries an error and the database is left alone
TagRefuse(u, op, receipt_id, tag_id, name, status) ==
    /\ tag_call' = Called(u, op, receipt_id, tag_id, name, status, "absent",
                          {}, {})
    /\ UNCHANGED <<tags, receipt_tags, tag_seq>>

tag_add(u, receipt_id, name) ==
    /\ UNCHANGED <<qvars, svars, hvars, pvars>>
    /\ IF receipt_id = MissingReceipt \/ name = MissingName
       THEN TagRefuse(u, "tag_add", receipt_id, MissingTagId, name, 400)
       ELSE IF GetReceipt(u, receipt_id) = {}
       THEN TagRefuse(u, "tag_add", receipt_id, MissingTagId, name, 404)
       ELSE \E receipt \in GetReceipt(u, receipt_id) :
            \* get_or_create
            /\ TagsNamed(u, name) = {} => tag_seq < MaxTagId
            /\ LET created == TagsNamed(u, name) = {}
                   tag == IF created
                          THEN [id |-> tag_seq + 1, user |-> u, name |-> name]
                          ELSE CHOOSE t \in TagsNamed(u, name) : TRUE
                   rows == tags \cup {tag}
                   rel == receipt_tags \cup {<<receipt, tag.id>>}
               IN /\ tags' = rows
                  /\ tag_seq' = IF created THEN tag_seq + 1 ELSE tag_seq
                  /\ receipt_tags' = rel
                  /\ tag_call' = Called(u, "tag_add", receipt_id,
                                        MissingTagId, name, 200, "absent",
                                        {ReceiptData(receipt, rows, rel)},
                                        {TagData(tag, rel)})

\* tag_remove without the deletion of a tag that lost its last receipt
tag_remove_keeps_orphan(u, receipt_id, tag_id) ==
    /\ UNCHANGED <<qvars, svars, hvars, pvars>>
    /\ IF receipt_id = MissingReceipt \/ tag_id = MissingTagId
       THEN TagRefuse(u, "tag_remove", receipt_id, tag_id, MissingName, 400)
       ELSE IF GetReceipt(u, receipt_id) = {} \/ GetTag(u, tag_id) = {}
       THEN TagRefuse(u, "tag_remove", receipt_id, tag_id, MissingName, 404)
       ELSE \E receipt \in GetReceipt(u, receipt_id), tag \in GetTag(u, tag_id) :
            IF <<receipt, tag.id>> \notin receipt_tags
            THEN TagRefuse(u, "tag_remove", receipt_id, tag_id, MissingName,
                           400)
            ELSE LET rel == receipt_tags \ {<<receipt, tag.id>>}
                 IN /\ receipt_tags' = rel
                    /\ UNCHANGED <<tags, tag_seq>>
                    /\ tag_call' = Called(u, "tag_remove", receipt_id, tag_id,
                                          MissingName, 200, "false",
                                          {ReceiptData(receipt, tags, rel)},
                                          {TagData(tag, rel)})

tag_remove(u, receipt_id, tag_id) ==
    /\ UNCHANGED <<qvars, svars, hvars, pvars>>
    /\ IF receipt_id = MissingReceipt \/ tag_id = MissingTagId
       THEN TagRefuse(u, "tag_remove", receipt_id, tag_id, MissingName, 400)
       ELSE IF GetReceipt(u, receipt_id) = {} \/ GetTag(u, tag_id) = {}
       THEN TagRefuse(u, "tag_remove", receipt_id, tag_id, MissingName, 404)
       ELSE \E receipt \in GetReceipt(u, receipt_id), tag \in GetTag(u, tag_id) :
            IF <<receipt, tag.id>> \notin receipt_tags
            THEN TagRefuse(u, "tag_remove", receipt_id, tag_id, MissingName,
                           400)
            ELSE LET rel == receipt_tags \ {<<receipt, tag.id>>}
                     orphaned == \A r \in Receipts : <<r, tag.id>> \notin rel
                     rows == IF orphaned THEN tags \ {tag} ELSE tags
                 IN /\ receipt_tags' = rel
                    /\ tags' = rows
                    /\ UNCHANGED tag_seq
                    /\ tag_call' =
                          IF orphaned
                          THEN Called(u, "tag_remove", receipt_id, tag_id,
                                      MissingName, 200, "true",
                                      {ReceiptData(receipt, rows, rel)}, {})
                          ELSE Called(u, "tag_remove", receipt_id, tag_id,
                                      MissingName, 200, "false",
                                      {ReceiptData(receipt, rows, rel)},
                                      {TagData(tag, rel)})

\* the receipts queryset is lazy: it is read for the response after the tag
\* and its rows in the many-to-many table are gone, so it is empty
tag_delete(u, tag_id) ==
    /\ UNCHANGED <<qvars, svars, hvars, pvars>>
    /\ IF GetTag(u, tag_id) = {}
       THEN TagRefuse(u, "tag_delete", MissingReceipt, tag_id, MissingName,
                      404)
       ELSE \E tag \in GetTag(u, tag_id) :
            /\ tags' = tags \ {tag}
            /\ receipt_tags' = {row \in receipt_tags : row[2] # tag.id}
            /\ UNCHANGED tag_seq
            /\ tag_call' = Called(u, "tag_delete", MissingReceipt, tag_id,
                                  MissingName, 200, "absent", {}, {})

\* tag_edit_name without the check for another tag of that name
tag_edit_name_unchecked(u, tag_id, name) ==
    /\ UNCHANGED <<qvars, svars, hvars, pvars>>
    /\ IF tag_id = MissingTagId \/ name = MissingName
       THEN TagRefuse(u, "tag_edit_name", MissingReceipt, tag_id, name, 400)
       ELSE IF GetTag(u, tag_id) = {}
       THEN TagRefuse(u, "tag_edit_name", MissingReceipt, tag_id, name, 404)
       ELSE \E tag \in GetTag(u, tag_id) :
            /\ tags' = (tags \ {tag}) \cup {[tag EXCEPT !.name = name]}
            /\ UNCHANGED <<receipt_tags, tag_seq>>
            /\ tag_call' = Called(u, "tag_edit_name", MissingReceipt,
                                  tag_id, name, 200, "absent", {}, {})

tag_edit_name(u, tag_id, name) ==
    /\ UNCHANGED <<qvars, svars, hvars, pvars>>
    /\ IF tag_id = MissingTagId \/ name = MissingName
       THEN TagRefuse(u, "tag_edit_name", MissingReceipt, tag_id, name, 400)
       ELSE IF GetTag(u, tag_id) = {}
       THEN TagRefuse(u, "tag_edit_name", MissingReceipt, tag_id, name, 404)
       ELSE \E tag \in GetTag(u, tag_id) :
            IF TagsNamed(u, name) \ {tag} # {}
            THEN TagRefuse(u, "tag_edit_name", MissingReceipt, tag_id, name,
                           409)
            ELSE /\ tags' = (tags \ {tag}) \cup {[tag EXCEPT !.name = name]}
                 /\ UNCHANGED <<receipt_tags, tag_seq>>
                 /\ tag_call' = Called(u, "tag_edit_name", MissingReceipt,
                                       tag_id, name, 200, "absent", {}, {})

TNext ==
    \/ \E u \in Users : tag_listall(u)
    \/ \E u \in Users, receipt_id \in ReceiptIds, name \in TagNames :
          tag_add(u, receipt_id, name)
    \/ \E u \in Users, receipt_id \in ReceiptIds, tag_id \in TagIds :
          tag_remove(u, receipt_id, tag_id)
    \/ \E u \in Users, tag_id \in TagIds : tag_delete(u, tag_id)
    \/ \E u \in Users, tag_id \in TagIds, name \in TagNames :
          tag_edit_name(u, tag_id, name)

(***************************************************************************)
(* PART 5 - the phone number flow: set_phone, auth_set_phone,              *)
(*          send_phone_verification_otp, verify_and_set_phone              *)
(* The requests of different users interleave at every access to the      *)
(* cache or to the database; one user sends one request at a time.  The    *)
(* user model (core/models.py) is modelled from its description: the       *)
(* phone number is unique across users, so that the database refuses a     *)
(* save that would give a second user a number.                            *)
(***************************************************************************)
Phones == {"14165550111", "14165550122"}

\* the codes random.randint(1000, 9999) may give
Codes == {"1234", "5678"}

NoPhone == "<none>"

\* no entry under the user's cache key
NoOtp == [phone_number |-> NoPhone, otp |-> ""]

IdleVerify == [pc |-> "idle", otp_code |-> "", phone_number |-> NoPhone]

NoPhoneResponse ==
    [op |-> "<none>", data |-> "", status |-> 0, error |-> "<none>"]

\* a response, with the phone number or the code of the request it answers
PhoneResponse(op, data, status, error) ==
    [op |-> op, data |-> data, status |-> status, error |-> error]

\* UserProfile.objects.filter(phone_number=phone).exclude(pk=user.pk).exists()
ClaimedByOther(u, phone) ==
    \E o \in Users \ {u} : phone_number[o] = phone

PInit ==
    /\ phone_number = [u \in Users |-> NoPhone]
    /\ otp_cache = [u \in Users |-> NoOtp]
    /\ verify = [u \in Users |-> IdleVerify]
    /\ phone_response = [u \in Users |-> NoPhoneResponse]

\* core/views.py:201-228 with send_phone_verification_otp: the serializer
\* refuses the request, or the SMS fails, or the OTP is sent and cached
set_phone(u, phone, otp_code) ==
    /\ UNCHANGED <<qvars, svars, hvars, tvars>>
    /\ verify[u].pc = "idle"
    /\ UNCHANGED <<phone_number, verify>>
    /\ \/ /\ phone_response' = [phone_response EXCEPT ![u] =
                PhoneResponse("set_phone", phone, 400, "serializer.errors")]
          /\ UNCHANGED otp_cache
       \/ /\ ~ClaimedByOther(u, phone)
          /\ \/ /\ phone_response' = [phone_response EXCEPT ![u] =
                      PhoneResponse("set_phone", phone, 500,
                                    "OTPGenerationError")]
                /\ UNCHANGED otp_cache
             \/ /\ otp_cache' = [otp_cache EXCEPT ![u] =
                      [phone_number |-> phone, otp |-> otp_code]]
                /\ phone_response' = [phone_response EXCEPT ![u] =
                      PhoneResponse("set_phone", phone, 200, "<none>")]

\* timeout=120: the cache drops the entry
OtpExpires(u) ==
    /\ UNCHANGED <<qvars, svars, hvars, tvars>>
    /\ otp_cache[u] # NoOtp
    /\ otp_cache' = [otp_cache EXCEPT ![u] = NoOtp]
    /\ UNCHANGED <<phone_number, verify, phone_response>>

\* the end of a verification that raised
VerifyRaises(u, otp_code, status, error) ==
    /\ verify' = [verify EXCEPT ![u] = IdleVerify]
    /\ phone_response' = [phone_response EXCEPT ![u] =
          PhoneResponse("auth_set_phone", otp_code, status, error)]
    /\ UNCHANGED <<phone_number, otp_cache>>

\* core/views.py:231-241 and phone_auth.py:83-93: the OTP is read from the
\* cache and compared with the code provided
auth_set_phone(u, otp_code) ==
    /\ UNCHANGED <<qvars, svars, hvars, tvars>>
    /\ verify[u].pc = "idle"
    /\ IF otp_code = ""
       THEN VerifyRaises(u, otp_code, 400, "This field is required.")
       ELSE IF otp_cache[u] = NoOtp
       THEN VerifyRaises(u, otp_code, 400, "OTPExpiredError")
       ELSE IF otp_cache[u].otp # otp_code
       THEN VerifyRaises(u, otp_code, 401, "InvalidOTPError")
       ELSE /\ verify' = [verify EXCEPT ![u] =
                  [pc |-> "matched", otp_code |-> otp_code,
                   phone_number |-> otp_cache[u].phone_number]]
            /\ UNCHANGED <<phone_number, otp_cache, phone_response>>

\* phone_auth.py:95-99: the final check for uniqueness
FinalUniquenessCheck(u) ==
    /\ UNCHANGED <<qvars, svars, hvars, tvars>>
    /\ verify[u].pc = "matched"
    /\ IF ClaimedByOther(u, verify[u].phone_number)
       THEN VerifyRaises(u, verify[u].otp_code, 400,
                         "This phone number has just been claimed.")
       ELSE /\ verify' = [verify EXCEPT ![u].pc = "checked"]
            /\ UNCHANGED <<phone_number, otp_cache, phone_response>>

\* a save on a table that does not keep the phone numbers unique
SaveUser_unconstrained(u) ==
    /\ UNCHANGED <<qvars, svars, hvars, tvars>>
    /\ verify[u].pc = "checked"
    /\ phone_number' = [phone_number EXCEPT ![u] = verify[u].phone_number]
    /\ verify' = [verify EXCEPT ![u].pc = "saved"]
    /\ UNCHANGED <<otp_cache, phone_response>>

\* phone_auth.py:101-102: user.save(update_fields=["phone_number"]); the
\* database refuses a number another user holds, and the exception ends the
\* request in the last except branch of auth_set_phone
SaveUser(u) ==
    /\ UNCHANGED <<qvars, svars, hvars, tvars>>
    /\ verify[u].pc = "checked"
    /\ IF ClaimedByOther(u, verify[u].phone_number)
       THEN VerifyRaises(u, verify[u].otp_code, 500,
                         "An unexpected error occurred")
       ELSE /\ phone_number' = [phone_number EXCEPT ![u] =
                                  verify[u].phone_number]
            /\ verify' = [verify EXCEPT ![u].pc = "saved"]
            /\ UNCHANGED <<otp_cache, phone_response>>

\* a verification that leaves the OTP in the cache
ConsumeOtp_kept(u) ==
    /\ UNCHANGED <<qvars, svars, hvars, tvars>>
    /\ verify[u].pc = "saved"
    /\ verify' = [verify EXCEPT ![u] = IdleVerify]
    /\ phone_response' = [phone_response EXCEPT ![u] =
          PhoneResponse("auth_set_phone", verify[u].otp_code, 200, "<none>")]
    /\ UNCHANGED <<phone_number, otp_cache>>

\* phone_auth.py:103-105 and core/views.py:244-247: cache.delete(cache_key)
ConsumeOtp(u) ==
    /\ UNCHANGED <<qvars, svars, hvars, tvars>>
    /\ verify[u].pc = "saved"
    /\ otp_cache' = [otp_cache EXCEPT ![u] = NoOtp]
    /\ verify' = [verify EXCEPT ![u] = IdleVerify]
    /\ phone_response' = [phone_response EXCEPT ![u] =
          PhoneResponse("auth_set_phone", verify[u].otp_code, 200, "<none>")]
    /\ UNCHANGED phone_number

PNext ==
    \/ \E u \in Users, phone \in Phones, otp_code \in Codes :
          set_phone(u, phone, otp_code)
    \/ \E u \in Users : OtpExpires(u)
    \/ \E u \in Users, otp_code \in Codes \cup {""} : auth_set_phone(u, otp_code)
    \/ \E u \in Users : FinalUniquenessCheck(u)
    \/ \E u \in Users : SaveUser(u)
    \/ \E u \in Users : ConsumeOtp(u)

(***************************************************************************)
(* Specifications                                                          *)
(***************************************************************************)
\* no search under way
HIdle ==
    /\ index_hits = [k \in Kinds |-> <<>>]
    /\ queried = <<>>
    /\ merged = <<>>
    /\ ranked = NotRanked

\* the other parts at rest
OIdle == HIdle /\ TInit /\ PInit

\* a request at rest, for the runs of the store alone
QIdle ==
    /\ QInit
    /\ request = [method |-> "POST", query |-> [type |-> "missing", text |-> <<>>]]

Next == QNext

Init == QInit /\ SInit /\ OIdle

\* process_query, one request
Spec == Init /\ [][Next]_vars

\* the request thread keeps running until it has responded
FairSpec == Spec /\ WF_vars(Next)

StoreInit == QIdle /\ SInit /\ OIdle

StoreNext == SNext

\* the index store with its jobs and readers
StoreSpec == StoreInit /\ [][StoreNext]_vars

\* the requests of one process that refresh and load the receipt index
Requests == {"request_1", "request_2"}

\* the store holds a first snapshot of the receipt index and the cache file a
\* copy of it; one append job and the requests of one process are at rest
CacheInit ==
    /\ QIdle
    /\ OIdle
    /\ now = 0
    /\ versions = [n \in {VersionName("receipt", 0)} |-> Serialize({1})]
    /\ latest = [k \in {"receipt"} |->
                   [bytes |-> Serialize({1}), source |-> VersionName("receipt", 0)]]
    /\ corpus = {1}
    /\ job = [j \in {"job_a"} |-> IdleJob]
    /\ reader = [r \in Requests |-> IdleReader]
    /\ cache = [k \in Kinds |-> IF k = "receipt" THEN Serialize({1}) ELSE <<>>]
    /\ window = [r \in Requests |-> {}]
    /\ loaded = NoLoad

CacheNext ==
    \/ \E j \in DOMAIN job, rec \in Records : AppendStart(j, rec, "receipt")
    \/ \E j \in DOMAIN job : UploadBlob(j)
    \/ \E j \in DOMAIN job : GenerateSas(j)
    \/ \E j \in DOMAIN job : CopyToLatest(j)
    \/ \E r \in DOMAIN reader : OpenDest(r, "receipt")
    \/ \E r \in DOMAIN reader : Download(r)
    \/ \E r \in DOMAIN reader : WriteChunk(r)
    \/ \E r \in DOMAIN reader : CloseDest(r)
    \/ LoadIndex("receipt")

\* the cache file of the receipt index under concurrent refreshes and loads
CacheSpec == CacheInit /\ [][CacheNext]_vars

\* one request with a query, and one maintenance job on a fresh store
LiveInit ==
    /\ QInit
    /\ OIdle
    /\ request = [method |-> "POST", query |-> [type |-> "str", text |-> <<"q">>]]
    /\ now = 0
    /\ versions = <<>>
    /\ latest = <<>>
    /\ corpus = {}
    /\ job = [j \in {"job_a"} |-> IdleJob]
    /\ reader = <<>>
    /\ cache = [k \in Kinds |-> <<>>]
    /\ window = <<>>
    /\ loaded = NoLoad

\* tasks.py:4-10  the steps of the Celery worker running the job
JobNext ==
    \/ \E j \in DOMAIN job, rec \in Records, kind \in Kinds : AppendStart(j, rec, kind)
    \/ \E j \in DOMAIN job, kind \in Kinds : RebuildStart(j, kind)
    \/ \E j \in DOMAIN job : UploadBlob(j)
    \/ \E j \in DOMAIN job : GenerateSas(j)
    \/ \E j \in DOMAIN job : CopyToLatest(j)

LiveNext == QNext \/ JobNext

\* a request served while a maintenance job runs, at any speed or not at all
LiveSpec == LiveInit /\ [][LiveNext]_vars

RankInit == QIdle /\ SInit /\ HInit /\ TInit /\ PInit

RankNext == HNext

\* one search over the indexes of both kinds
RankSpec == RankInit /\ [][RankNext]_vars

TagInit == QIdle /\ SInit /\ HIdle /\ TInit /\ PInit

\* any sequence of calls of the tag views by two users
TagSpec == TagInit /\ [][TNext]_vars

PhoneInit == QIdle /\ SInit /\ HIdle /\ TInit /\ PInit

\* any interleaving of the phone number requests of two users
PhoneSpec == PhoneInit /\ [][PNext]_vars

(***************************************************************************)
(* Claims about process_query (Spec, FairSpec)                             *)
(***************************************************************************)
\* C1: a request whose query the safety gate classifies as malicious ends
\* with the rejection response (400, stage malicious_check, "Query not
\* allowed: " followed by the non-empty reason), and detect_malicious_intent
\* is the only stage ever invoked for it: no model-file load, index load,
\* term extraction, embedding, search, code generation, execution or
\* formatting.
C1_MaliciousShortCircuits ==
    verdict.outcome = "malicious" =>
        /\ pc = "done"
        /\ response = JsonResponse(400, "malicious_check",
                                   "Query not allowed: " \o verdict.reason)
        /\ Len(verdict.reason) > 0
        /\ Len(response.error) > Len("Query not allowed: ")
        /\ calls = <<"detect_malicious_intent">>
        /\ loop = "Idle" /\ model_requests = 0 /\ executed = <<>>

C1_Witness ==
    /\ verdict.outcome = "malicious"
    /\ pc = "done"
    /\ response.status = 400

\* C2: the safety gate is fail-closed: when the classification call raises,
\* the request terminates with a malicious_check failure response, no
\* downstream stage runs and the query is never passed on as benign.
C2_GateFailsClosed ==
    verdict.outcome = "raised" =>
        /\ pc = "done"
        /\ response.kind = "json"
        /\ response.status = 500
        /\ response.stage = "malicious_check"
        /\ calls = <<"detect_malicious_intent">>
        /\ loop = "Idle" /\ model_requests = 0 /\ executed = <<>>

C2_Witness ==
    /\ verdict.outcome = "raised"
    /\ pc = "done"
    /\ response.stage = "malicious_check"

\* C5: the number of candidate requests sent to the model for one query
\* never exceeds 3, the max_attempts process_query passes, whatever
\* candidates the model returns; no fourth attempt follows three invalid
\* candidates.
C5_AtMostMaxAttempts ==
    /\ model_requests <= 3
    /\ attempt <= 3
    /\ DOMAIN attempts_log \subseteq 1..3
    /\ pc = "done" => model_requests <= 3

C5_Witness ==
    /\ model_requests = 3
    /\ loop = "Exhausted"
    /\ pc = "done"

\* C6: the feedback loop always terminates: from Drafting it eventually
\* reaches Accepted or Exhausted, for every sequence of candidates the model
\* returns, and never stays in Drafting, Validating or Retrying forever.
C6_LoopTerminates ==
    (loop \in {"Drafting", "Validating", "Retrying"})
        ~> (loop \in {"Accepted", "Exhausted"})

AllInvalid ==
    /\ DOMAIN attempts_log = 1..max_attempts
    /\ \A n \in DOMAIN attempts_log :
          attempts_log[n].validation_outcome = "invalid"

C6_Witness ==
    /\ loop = "Exhausted"
    /\ AllInvalid
    /\ \A n \in 1..max_attempts :
          attempts_log[n].generated_artifact = "code_bad_1"

\* C7: the loop is Exhausted exactly when max_attempts consecutive candidates
\* were invalid, and then returns a sentinel rather than raising;
\* process_query answers a sentinel (empty, or "Unable to process query")
\* with the code_gen response 'Unable to generate executable code' and never
\* invokes execute_code or the formatter for that request.
C7_ExhaustedIsNegativeOutcome ==
    /\ loop = "Exhausted" <=> AllInvalid
    /\ loop = "Exhausted" =>
          /\ loop_result \in Sentinels
          /\ pc \in {"code_gen", "done"}
          /\ pc = "done" =>
                response = JsonResponse(400, "code_gen",
                                        "Unable to generate executable code")
          /\ executed = <<>>
          /\ \A i \in 1..Len(calls) :
                calls[i] \notin {"execute_code", "format_results_with_gpt"}
    /\ \A i \in 1..Len(executed) : ~IsSentinel(executed[i])

C7_Witness ==
    /\ loop = "Exhausted"
    /\ loop_result = "Unable to process query"
    /\ pc = "done"
    /\ response.stage = "code_gen"

\* C8: the loop is Accepted on the first valid candidate and returns it: no
\* further candidate is requested once one validated, and the artifact
\* process_query executes and reports is the one that passed validation,
\* never an invalid candidate.
C8_FirstValidCandidateWins ==
    /\ loop = "Accepted" =>
          /\ IsValid(loop_result)
          /\ attempts_log[attempt].generated_artifact = loop_result
          /\ model_requests = attempt
          /\ \A n \in DOMAIN attempts_log :
                (attempts_log[n].validation_outcome = "valid") <=> (n = attempt)
          /\ \A n \in DOMAIN attempts_log :
                n < attempt => ~IsValid(attempts_log[n].generated_artifact)
    /\ \A i \in 1..Len(executed) :
          /\ loop = "Accepted"
          /\ executed[i] = loop_result
          /\ IsValid(executed[i])
    /\ response.code # Absent => response.code = loop_result /\ loop = "Accepted"

C8_Witness ==
    /\ loop = "Accepted"
    /\ attempt = 2
    /\ attempts_log[1].generated_artifact = "code_bad_2"
    /\ executed = <<"code_ok_1">>
    /\ response.code = "code_ok_1"

\* C9: attempt 1 is seeded with the query and the retrieved context and no
\* feedback; every attempt n >= 2 is seeded with these and with the
\* validation failure message attempt n-1 produced, so a retry never carries
\* less than the attempt before it.
C9_RetriesCarryFeedback ==
    \A n \in DOMAIN attempts_log :
        /\ attempts_log[n].seed.query = user_query
        /\ attempts_log[n].seed.context = faiss_results
        /\ n = 1 => attempts_log[n].seed.feedback = NoFeedback
        /\ n >= 2 =>
              /\ attempts_log[n - 1].validation_outcome = "invalid"
              /\ attempts_log[n].seed.feedback =
                    FeedbackFor(attempts_log[n - 1].generated_artifact)
              /\ attempts_log[n].seed.feedback =
                    attempts_log[n - 1].feedback_message
              /\ SeedSize(attempts_log[n].seed)
                    >= SeedSize(attempts_log[n - 1].seed)

C9_Witness ==
    /\ attempt = 3
    /\ attempts_log[2].seed.feedback = FeedbackFor("code_bad_1")
    /\ attempts_log[3].seed.feedback = FeedbackFor("code_bad_2")

\* the calls process_query makes, in the order of views.py:51-124
CodeOrder ==
    <<"detect_malicious_intent", "load_models_file", "load_faiss_indexes",
      "extract_search_terms", "SentenceTransformer", "search_with_faiss",
      "get_executable_code_with_feedback", "execute_code",
      "format_results_with_gpt">>

\* the order the stages are described in: the term extractor ahead of the
\* index cache refresh
DescribedOrder ==
    <<"detect_malicious_intent", "extract_search_terms", "load_faiss_indexes",
      "search_with_faiss", "get_executable_code_with_feedback", "execute_code",
      "format_results_with_gpt">>

IsPrefix(s, t) == Len(s) <= Len(t) /\ s = SubSeq(t, 1, Len(s))

IsDescribedStage(c) == \E i \in DOMAIN DescribedOrder : DescribedOrder[i] = c

\* the calls a failure response tagged with a stage can come from
StageCalls(stage) ==
    CASE stage = "malicious_check" -> {"detect_malicious_intent"}
      [] stage = "load_models_file" -> {"load_models_file"}
      [] stage = "load_faiss" -> {"load_faiss_indexes"}
      [] stage = "semantic_search" ->
            {"extract_search_terms", "SentenceTransformer", "search_with_faiss"}
      [] stage = "code_gen" -> {"get_executable_code_with_feedback"}
      [] stage = "code_exec" -> {"execute_code"}
      [] stage = "file_response" -> {"execute_code"}
      [] stage = "format_result" -> {"format_results_with_gpt"}
      [] OTHER -> {}

\* C12 as stated: the stages run in the order safety gate, term extractor,
\* index cache refresh, similarity search, code generation, execution,
\* formatter.
C12_DescribedStageOrder ==
    IsPrefix(SelectSeq(calls, IsDescribedStage), DescribedOrder)

\* C12 amended: the stages of one request run strictly one after the other
\* in the order safety gate, model-file load, index load (cache refresh),
\* term extractor, embedder, similarity search, code generation, execution,
\* formatter: the calls made so far are a prefix of that order, and a request
\* answered with a failure made its last call in the stage that failed (none
\* at all when the query was refused before the safety gate).
C12_StagesRunInCodeOrder ==
    /\ IsPrefix(calls, CodeOrder)
    /\ pc = "done" <=> response # NoResponse
    /\ response.status >= 400 =>
          IF response.stage \in {Absent, "get_query"}
          THEN calls = <<>>
          ELSE /\ calls # <<>>
               /\ calls[Len(calls)] \in StageCalls(response.stage)

C12_Witness ==
    /\ pc = "done"
    /\ calls = CodeOrder
    /\ response.status = 200

\* the 'query' field is missing, empty or made of whitespace only
IsBlankQuery(q) ==
    /\ q.type \in {"missing", "str"}
    /\ \A i \in DOMAIN q.text : q.text[i] = " "

\* C13: a POST request whose query is missing, empty or whitespace-only is
\* rejected with the input-validation error (400, "Query is empty") before
\* any stage runs: no safety check, no index load, no search, no code
\* generation, no execution, no formatting.
C13_BlankQueryRejectedFirst ==
    (request.method = "POST" /\ IsBlankQuery(request.query)) =>
        /\ pc \in {"start", "done"}
        /\ pc = "done" => response = JsonResponseNoStage(400, "Query is empty")
        /\ calls = <<>>
        /\ verdict = NoVerdict
        /\ user_query = <<>>
        /\ loop = "Idle" /\ model_requests = 0 /\ executed = <<>>

C13_Witness ==
    /\ request.method = "POST"
    /\ request.query = [type |-> "str", text |-> <<" ", " ">>]
    /\ pc = "done"
    /\ response.status = 400

\* execute_code came back to process_query with an ExecutionResult
RunCameBack == run.state \in {"returned", "timed_out"}

C15_RunawayArtifactIsStopped ==
    /\ (run.state = "running" /\ run.behaviour = "never_finishes")
          ~> (run.state = "timed_out" /\ exec_result.type = "error")
    /\ (pc = "code_exec") ~> (pc \in {"deliver", "done"})

C15_Witness ==
    /\ run.behaviour = "never_finishes"
    /\ run.state = "timed_out"
    /\ run.elapsed = ExecTimeout
    /\ exec_result.type = "error"
    /\ pc = "done"

\* C16: a fault in the formatting stage does not fail the request: whatever
\* the ExecutionResult variant, a request that reached the formatter
\* completes with an answer (the summary, or the generic "could not
\* summarize"), never with a failure response.
C16_FormattingNeverFailsRequest ==
    (pc = "done" /\ calls # <<>>
       /\ calls[Len(calls)] = "format_results_with_gpt") =>
        /\ response.status = 200
        /\ response.result \in Answers

\* what the request ends with once the formatter was reached: an answer, or
\* the 500 failure tagged format_result
FormattingEndsInAnswerOrFailure ==
    (pc = "done" /\ calls # <<>>
       /\ calls[Len(calls)] = "format_results_with_gpt") =>
        \/ response.status = 200 /\ response.result \in Answers
        \/ \E e \in ExcMessages : response = JsonResponse(500, "format_result", e)

\* the response the ExecutionResult calls for: the file stream under the
\* result's filename for File, the payload of query, accepted artifact and
\* formatted answer otherwise
IsResponseFor(result) ==
    IF result.type = "file"
    THEN /\ response.kind = "file"
         /\ response.filename = result.filename
    ELSE /\ executable_code = loop_result
         /\ executable_code \in ValidArtifacts
         /\ response.kind = "json"
         /\ response.query = user_query
         /\ response.code = executable_code
         /\ response.result \in Answers

C18_NoTermsStillReachesCodeGen ==
    (search_terms = <<>> /\ faiss_results # NotSearched) =>
        /\ faiss_results = <<>>
        /\ response.stage # "semantic_search"
        /\ \/ pc = "code_gen"
           \/ \E i \in DOMAIN calls : calls[i] = "get_executable_code_with_feedback"
        /\ \A n \in DOMAIN attempts_log : attempts_log[n].seed.context = <<>>

C18_Witness ==
    /\ search_terms = <<>>
    /\ faiss_results = <<>>
    /\ loop = "Accepted"
    /\ attempts_log[1].seed.context = <<>>
    /\ pc = "done"
    /\ response.status = 200

\* a maintenance job has started and not yet ended
JobUnderWay == \E j \in DOMAIN job : job[j].pc \in {"built", "uploaded", "signed"}

\* C21: maintenance jobs never block a live query: whatever state a
\* concurrently running append or rebuild job is in, also one that stays
\* between its upload and its copy forever, a request that has not been
\* answered yet can take its next step.
C21_JobsNeverBlockRequest ==
    pc # "done" => ENABLED QNext

\* a request answered in full while the job stood between upload and copy
C21_Witness ==
    /\ \E j \in DOMAIN job : job[j].pc = "uploaded"
    /\ pc = "done"
    /\ response.status = 200
    /\ calls = CodeOrder

OnlyEarlyRefusalsLackStage ==
    (response.status >= 400 /\ response.stage = Absent) =>
        /\ calls = <<>>
        /\ response.error # Absent
        /\ \/ response.status = 405 /\ request.method # "POST"
           \/ response.status = 400 /\ IsBlankQuery(request.query)

\* a safety rejection, an upstream-service failure and a generation
\* exhaustion are told apart by status and stage
FailureClassesDistinguishable ==
    pc = "done" =>
        /\ verdict.outcome = "malicious"
              <=> (response.status = 400 /\ response.stage = "malicious_check")
        /\ (loop = "Exhausted" /\ executable_code = loop_result)
              <=> (response.status = 400 /\ response.stage = "code_gen")
        /\ response.status = 500 =>
              /\ response.stage # Absent
              /\ verdict.outcome # "malicious"
              /\ ~(loop = "Exhausted" /\ executable_code = loop_result)

ReceiptFirstRanking ==
    Truncate(StableSort(index_hits["receipt"] \o index_hits["item"]), TopK)

\* two hits of different indexes agree on score, recency and source_id
CrossIndexTie ==
    \E i \in DOMAIN index_hits["receipt"], j \in DOMAIN index_hits["item"] :
        RankKey(index_hits["receipt"][i]) = RankKey(index_hits["item"][j])

C3_ReadersSeeWholeSnapshots ==
    \A r \in Readers :
        reader[r].pc \in {"writing", "done"} =>
            /\ IsComplete(reader[r].got)
            /\ reader[r].got \in window[r]

\* a download that began when {1} was latest and obtained {1, 2}, promoted
\* while it ran
C3_Witness ==
    \E r \in Readers :
        /\ reader[r].pc = "writing"
        /\ window[r] = {Serialize({1}), Serialize({1, 2})}
        /\ reader[r].got = Serialize({1, 2})

\* C4 (second part): in every reachable state the latest alias of a kind,
\* when it exists, holds the content of a versioned snapshot of that kind
\* that exists in the store.
C4_LatestRefersToStoredSnapshot ==
    \A k \in DOMAIN latest :
        \E n \in DOMAIN versions :
            /\ n[1] = k
            /\ versions[n] = latest[k].bytes

\* C4 (first part): a step of upload_version that fails leaves every latest
\* alias as it was.
FailedUploadKeepsLatest ==
    [][\A j \in Jobs :
          (job[j].pc # "failed" /\ job'[j].pc = "failed") => latest' = latest]_vars

\* two upload_version calls that named their version in the same second
SameSecondUploads ==
    \E j1, j2 \in Jobs :
        /\ j1 # j2
        /\ job[j1].name = job[j2].name
        /\ job[j1].name[1] \in Kinds

\* the second part of C4 holds as long as no two uploads shared a second
LatestStoredUnlessSameSecond ==
    SameSecondUploads \/ C4_LatestRefersToStoredSnapshot

\* the versions of a kind marked latest: the copy source of its alias
MarkedLatest(k) ==
    {n \in DOMAIN versions : n[1] = k /\ k \in DOMAIN latest /\ latest[k].source = n}

\* C10 as stated: for each kind with a version in the store, exactly one
\* version is marked latest in every reachable state.
C10_ExactlyOneLatestAlways ==
    \A k \in Kinds :
        (\E n \in DOMAIN versions : n[1] = k) => Cardinality(MarkedLatest(k)) = 1

\* C10 amended: for each kind at most one version is marked latest in every
\* reachable state, and exactly one from the first completed promotion of
\* that kind on; the alias exists only once a promotion completed.
C10_OneLatestOncePromoted ==
    \A k \in Kinds :
        /\ Cardinality(MarkedLatest(k)) <= 1
        /\ (\E j \in Jobs : job[j].pc = "done" /\ job[j].kind = k)
              <=> k \in DOMAIN latest
        /\ k \in DOMAIN latest => Cardinality(MarkedLatest(k)) = 1

C10_Witness ==
    /\ \A j \in Jobs : job[j].pc = "done" /\ job[j].kind = "receipt"
    /\ Cardinality({n \in DOMAIN versions : n[1] = "receipt"}) = 2
    /\ Cardinality(MarkedLatest("receipt")) = 1
    /\ \E r \in Readers : reader[r].pc = "done" /\ reader[r].kind = "receipt"

\* C11: versioned snapshots are immutable and uniquely named: a step that
\* uploads a version creates a name no earlier call used, and the bytes
\* stored under a versioned name never change afterwards, also when two
\* uploads of a kind fall into the same second or run concurrently.
C11_VersionsImmutable ==
    [][\A n \in DOMAIN versions :
          /\ n \in DOMAIN versions'
          /\ versions'[n] = versions[n]]_vars

\* a stored version changes only in a step after which two uploads have named
\* their version in the same second
VersionsChangeOnlyBySameSecond ==
    [][SameSecondUploads'
       \/ \A n \in DOMAIN versions :
             n \in DOMAIN versions' /\ versions'[n] = versions[n]]_vars

\* every job has run to its end and none was a rebuild of the kind
OnlyAppendsCompleted(k) ==
    /\ \A j \in DOMAIN job : job[j].pc \in {"idle", "done", "failed"}
    /\ \A j \in DOMAIN job :
          (job[j].pc # "idle" /\ job[j].kind = k) => job[j].rec # 0

\* a refresh of the kind's cache file from the current latest has completed
CacheRefreshedFromLatest(k) ==
    /\ k \in DOMAIN latest
    /\ \E r \in DOMAIN reader :
          /\ reader[r].pc = "done"
          /\ reader[r].kind = k
          /\ reader[r].got = latest[k].bytes
    /\ cache[k] = latest[k].bytes

\* C19: round trip: once the appends of a kind have completed and the cache
\* file was refreshed from the latest snapshot, the cached index contains
\* every record whose append completed.
C19_AppendedRecordsReachCache ==
    \A k \in Kinds :
        (OnlyAppendsCompleted(k) /\ CacheRefreshedFromLatest(k)) =>
            \A j \in DOMAIN job :
                (job[j].pc = "done" /\ job[j].kind = k)
                    => job[j].rec \in Deserialize(cache[k])

\* the round trip holds as long as a single append job has run
RoundTripWithOneAppend ==
    (\E j \in DOMAIN job : job[j].pc = "idle") => C19_AppendedRecordsReachCache

\* C20: the cache file is never read while partially written: what a load
\* reads while refreshes run is a complete snapshot, and once the refreshes
\* of a kind have all completed its cache file holds a complete snapshot.
C20_CacheReadsAreComplete ==
    /\ loaded.read => IsComplete(loaded.bytes)
    /\ \A k \in Kinds :
          (/\ \E r \in DOMAIN reader : reader[r].kind = k
           /\ \A r \in DOMAIN reader : reader[r].kind = k => reader[r].pc = "done")
          => IsComplete(cache[k])

\* the refreshes of a kind that ran one at a time and completed leave a
\* complete snapshot
SingleRefreshLeavesCompleteCache ==
    \A k \in Kinds :
        (/\ Cardinality({r \in DOMAIN reader : reader[r].kind = k}) = 1
         /\ \A r \in DOMAIN reader : reader[r].kind = k => reader[r].pc = "done")
        => IsComplete(cache[k])


\* C27: the latest alias of a kind never regresses: once two upload_version
\* calls for the kind that ran concurrently have both completed, the alias
\* holds the snapshot with the newer version timestamp, never the older one.
C27_LatestNeverRegresses ==
    \A j1 \in DOMAIN job, j2 \in DOMAIN job :
        (/\ job[j1].pc = "done" /\ job[j2].pc = "done"
         /\ job[j1].kind = job[j2].kind
         /\ job[j1].name[2] < job[j2].name[2])
        => /\ latest[job[j2].kind].source = job[j2].name
           /\ latest[job[j2].kind].bytes = versions[job[j2].name]

\* C28: no appended record is lost under concurrency: once two jobs of a
\* kind (two appends, or an append and a full rebuild) that ran concurrently
\* have both completed, the latest snapshot of the kind contains every
\* record whose append completed.
C28_NoAppendedRecordLost ==
    \A k \in Kinds :
        (\A j \in DOMAIN job : job[j].pc = "done" /\ job[j].kind = k)
        => \A j \in DOMAIN job :
              job[j].rec # 0 => job[j].rec \in LatestIndex(k)

(***************************************************************************)
(* Claims about the tag views (TagSpec)                                    *)
(***************************************************************************)
\* the database the tag views work on
tagdb == <<tags, receipt_tags, tag_seq>>

\* C24: a tag_remove that succeeds takes the tag off the receipt; it deletes
\* the tag, and answers tag_deleted = true, exactly when no other receipt
\* carries the tag, and otherwise leaves the tag and its other rows alone and
\* answers tag_deleted = false; a tag_remove of a tag of the caller that is
\* not on the caller's receipt is refused with 400 and changes nothing.
C24_RemoveDeletesExactlyOrphans ==
    [][tag_call'.op = "tag_remove" =>
        LET u == tag_call'.user
            r == tag_call'.receipt_id
            id == tag_call'.tag_id
            mine == {t \in tags : t.id = id /\ t.user = u}
            owned == r \in Receipts /\ OwnerOf(r) = u
            others == {x \in Receipts \ {r} : <<x, id>> \in receipt_tags}
        IN /\ (owned /\ mine # {} /\ <<r, id>> \in receipt_tags)
                 => tag_call'.status = 200
           /\ (owned /\ mine # {} /\ <<r, id>> \notin receipt_tags)
                 => tag_call'.status = 400 /\ UNCHANGED tagdb
           /\ tag_call'.status = 200 =>
                 /\ receipt_tags' = receipt_tags \ {<<r, id>>}
                 /\ others = {} =>
                       tags' = tags \ mine /\ tag_call'.tag_deleted = "true"
                 /\ others # {} =>
                       tags' = tags /\ tag_call'.tag_deleted = "false"]_vars

\* a tag_remove took the last receipt from a tag, and the tag is gone
C24_Witness ==
    /\ tag_call.op = "tag_remove"
    /\ tag_call.status = 200
    /\ tag_call.tag_deleted = "true"
    /\ \A t \in tags : t.id # tag_call.tag_id
    /\ \A row \in receipt_tags : row[2] # tag_call.tag_id

\* the rows of the users other than u
RowsOfOthers(u, rows) == {t \in rows : t.user # u}

\* the rows of the many-to-many table that touch a receipt of another user
\* or a tag of another user
RelOfOthers(u, rows, rel) ==
    {row \in rel : \/ OwnerOf(row[1]) # u
                   \/ \E t \in RowsOfOthers(u, rows) : t.id = row[2]}

\* a call leaves what the other users own as it was
OthersUntouched ==
    LET u == tag_call'.user
    IN /\ RowsOfOthers(u, tags') = RowsOfOthers(u, tags)
       /\ RelOfOthers(u, tags', receipt_tags')
             = RelOfOthers(u, tags, receipt_tags)

\* a response shows no tag and no receipt of another user
NothingOfOthersShown ==
    LET u == tag_call'.user
        foreign(id) == \E t \in RowsOfOthers(u, tags \cup tags') : t.id = id
    IN /\ \A d \in tag_call'.tags :
             /\ ~foreign(d.id)
             /\ \A r \in d.receipts : OwnerOf(r) = u
       /\ \A d \in tag_call'.receipts :
             /\ OwnerOf(d.id) = u
             /\ \A s \in d.tags : ~foreign(s.id)

\* the call names a receipt or a tag of another user
NamesForeign ==
    LET u == tag_call'.user
    IN \/ /\ tag_call'.receipt_id \in Receipts
          /\ OwnerOf(tag_call'.receipt_id) # u
       \/ \E t \in RowsOfOthers(u, tags) : t.id = tag_call'.tag_id

\* the call lacks a field its view requires
LacksRequiredField ==
    \/ /\ tag_call'.op = "tag_add"
       /\ tag_call'.receipt_id = MissingReceipt \/ tag_call'.name = MissingName
    \/ /\ tag_call'.op = "tag_remove"
       /\ tag_call'.receipt_id = MissingReceipt
             \/ tag_call'.tag_id = MissingTagId
    \/ /\ tag_call'.op = "tag_edit_name"
       /\ tag_call'.tag_id = MissingTagId \/ tag_call'.name = MissingName

\* C25 as stated: a call of a tag view neither changes nor shows what another
\* user owns, and a call naming another user's receipt or tag is answered
\* 404 and changes nothing.
C25_ForeignNamesAnswered404 ==
    [][/\ OthersUntouched
       /\ NothingOfOthersShown
       /\ NamesForeign => tag_call'.status = 404 /\ UNCHANGED tagdb]_vars

\* C25: a call of a tag view neither changes nor shows what another user
\* owns; a call naming another user's receipt or tag changes nothing and is
\* answered 404, or 400 when it lacks a field its view requires.
C25_TagsIsolatedPerUser ==
    [][/\ OthersUntouched
       /\ NothingOfOthersShown
       /\ NamesForeign =>
             /\ UNCHANGED tagdb
             /\ tag_call'.status = IF LacksRequiredField THEN 400 ELSE 404]_vars

\* a user named a tag of the other user, was answered 404, and the tag and
\* its rows are still there
C25_Witness ==
    /\ tag_call.user \in Users
    /\ tag_call.status = 404
    /\ \E t \in tags :
          /\ t.id = tag_call.tag_id
          /\ t.user # tag_call.user
          /\ \E row \in receipt_tags : row[2] = t.id
    /\ \E t \in tags : t.user = tag_call.user

\* no user has two tags of one name
TagNamesUnique ==
    \A t1 \in tags, t2 \in tags :
        (t1.user = t2.user /\ t1.name = t2.name) => t1 = t2

\* C26: no user ever has two tags of one name; a tag_add of a name the user
\* already has makes no tag and adds only the row that puts that tag on the
\* receipt, so that a second identical tag_add changes nothing; a
\* tag_edit_name to a name another tag of the user holds is refused with 409
\* and changes nothing, while one to the tag's own name succeeds.
C26_TagNamesStayUnique ==
    /\ []TagNamesUnique
    /\ [][LET u == tag_call'.user
              held == {t \in tags : t.user = u /\ t.name = tag_call'.name}
              mine == {t \in tags : t.user = u /\ t.id = tag_call'.tag_id}
          IN /\ (tag_call'.op = "tag_add" /\ tag_call'.status = 200
                    /\ held # {}) =>
                   /\ tags' = tags
                   /\ receipt_tags' = receipt_tags \cup
                         {<<tag_call'.receipt_id, t.id>> : t \in held}
                   /\ Cardinality(receipt_tags') <= Cardinality(receipt_tags) + 1
             /\ (tag_call'.op = "tag_add" /\ tag_call = tag_call')
                   => UNCHANGED tagdb
             /\ (tag_call'.op = "tag_edit_name" /\ mine # {}
                    /\ tag_call'.name # MissingName) =>
                   IF held \ mine # {}
                   THEN tag_call'.status = 409 /\ UNCHANGED tagdb
                   ELSE /\ tag_call'.status = 200
                        /\ tags' = (tags \ mine) \cup
                              {[t EXCEPT !.name = tag_call'.name] : t \in mine}
         ]_vars

\* a user with two tags tried to give one the name of the other and was
\* refused, and both tags are there under their names
C26_Witness ==
    /\ tag_call.op = "tag_edit_name"
    /\ tag_call.status = 409
    /\ \E t1 \in tags, t2 \in tags :
          /\ t1.user = tag_call.user /\ t2.user = tag_call.user
          /\ t1.id = tag_call.tag_id
          /\ t2.id # t1.id
          /\ t2.name = tag_call.name
          /\ t1.name # t2.name

Answered(u) == phone_response'[u] # phone_response[u]

\* C30: the OTP lifecycle.  A verification passes the comparison only when
\* an OTP is cached for the user and equals the code provided; the phone
\* number of a user changes only in such a verification and becomes the
\* number cached with that OTP; a verification that succeeds leaves no OTP
\* in the cache, so that a further one is answered expired or not found; a
\* wrong code or a missing OTP leaves the phone number and the cached OTP as
\* they were; a failed SMS send leaves the cache as it was.
C30_OtpLifecycle ==
    [][\A u \in Users :
          /\ (verify[u].pc = "idle" /\ verify'[u].pc # "idle") =>
                /\ otp_cache[u] # NoOtp
                /\ otp_cache[u].otp = verify'[u].otp_code
                /\ verify'[u].phone_number = otp_cache[u].phone_number
          /\ phone_number'[u] # phone_number[u] =>
                /\ verify[u].pc \notin {"idle", "saved"}
                /\ phone_number'[u] = verify[u].phone_number
          /\ (Answered(u) /\ phone_response'[u].op = "auth_set_phone"
                 /\ phone_response'[u].status = 200) =>
                /\ otp_cache'[u] = NoOtp
                /\ phone_number'[u] = verify[u].phone_number
          /\ (Answered(u) /\ phone_response'[u].op = "auth_set_phone"
                 /\ verify[u].pc = "idle" /\ phone_response'[u].data # "") =>
                /\ UNCHANGED <<phone_number, otp_cache>>
                /\ otp_cache[u] = NoOtp =>
                      phone_response'[u].error = "OTPExpiredError"
                /\ otp_cache[u] # NoOtp =>
                      /\ otp_cache[u].otp # phone_response'[u].data
                      /\ phone_response'[u].error = "InvalidOTPError"
          /\ (Answered(u) /\ phone_response'[u].error = "OTPGenerationError")
                => UNCHANGED otp_cache]_vars

\* a user verified a number, and the same code sent again was answered
\* expired or not found
C30_Witness ==
    \E u \in Users :
        /\ phone_number[u] \in Phones
        /\ otp_cache[u] = NoOtp
        /\ phone_response[u] = PhoneResponse("auth_set_phone",
               phone_response[u].data, 400, "OTPExpiredError")
        /\ phone_response[u].data \in Codes

=============================================================================
